---- MODULE Spec2Model ----
(***************************************************************************)
(* swarm-commander: the upload engine of src/index.js.                     *)
(*                                                                         *)
(* One upload session is one invocation of uploadFile() or                 *)
(* uploadDirectory().  Both are async functions running on the single      *)
(* node event loop: every stretch of code between two awaits is one atomic *)
(* step.  The steps of a session are                                       *)
(*   F5Directory            the F5 key on a directory entry                *)
(*   StartFile / StartDir   entry up to the first await (createTag)        *)
(*   CreateTagReply         createTag settles, up to the payload await     *)
(*   PayloadReply           POST /bzz settles, up to the first sync sleep  *)
(*   SyncTimeout            the 500 ms sleep ends, getTagStatus is issued  *)
(*   SyncPollReply          that getTagStatus settles                      *)
(*   TimerTick/TimerReply   the 300 ms setInterval callback and its await  *)
(*   MoveToBackground       the escape / b / button handler                *)
(* The Bee node is the environment: each request settles with success or   *)
(* failure, and a status reply carries any counters within the bounds.     *)
(* Replies are assumed well formed (uid, reference and counters present).  *)
(***************************************************************************)
EXTENDS Integers, Sequences, FiniteSets, TLC

\* ---------------------------------------------------------------- bounds
\* status polls of the 300 ms interval that may be awaiting a reply at once
MaxInFlight == 1
\* largest chunk count (split) the node reports
MaxSplit == 1
\* size in bytes of the uploaded file
FileSize == 10
\* largest chunk count of a transfer that the node goes on splitting
MaxChunks == 2
\* chunk count of a transfer of many chunks
ManyChunks == 23
\* full pages of tags the node returns to one listing
MaxPages == 3

\* ------------------------------------------------------ program constants
\* for (let i = 0; i < 240 && ...)
SyncLimit == 240
\* let tagUid = null
NoTag == 0
\* updateProgress(`Processing ...`, 5, 0)
ProcessingPercent == 5
\* const limit = 1000
PageLimit == 1000

Null == "null"
SessionIds == {1, 2}
BatchIds == {"", "batch1"}
\* the reference the node returns for the payload of session s
RefOf(s) == IF s = 1 THEN "ref1" ELSE "ref2"
\* the directory offered for upload: relative path -> size
DirTrees == { {}, {"a.txt"}, {"index.html", "a.txt"}, {"sub/index.html"} }
SizeOf(p) == IF p = "a.txt" THEN 6 ELSE 4
\* the numbers of entries the node puts on a page
PageLengths == {0, 1, PageLimit - 1, PageLimit}

VARIABLES
  batchId,      \* let batchId: the storage-allocation id (global)
  uploadsFile,  \* state/uploads.json: [valid, db, writable]
  dirFiles,     \* per session: the regular files under its dirPath
  nextUid,      \* the uid the node gives the next tag
  footer,       \* what showMessage last put in the footer
  sessions,     \* the sessions the user starts in this run
  sess,         \* per session: the locals of the running upload function
  listing       \* the locals of getAllTags / refreshTagList and the tag list

vars ==
  <<batchId, uploadsFile, dirFiles, nextUid, footer, sessions, sess, listing>>

\* ------------------------------------------------------ Metadata Store

EmptyDb == [k \in {} |-> [f \in {} |-> Null]]
EmptyMeta == [f \in {} |-> Null]

\* a put that replaces the record wholesale
Spread_Replace(a, b) == b

\* { ...a, ...b }
Spread(a, b) ==
  [f \in (DOMAIN a) \cup (DOMAIN b) |-> IF f \in DOMAIN b THEN b[f] ELSE a[f]]

\* loadUploadsDb: a missing or unparsable file reads as {}
loadUploadsDb(file) == IF file.valid THEN file.db ELSE EmptyDb

\* a merge that takes a put which changes nothing for a removal
MergeMeta_DropsOnRepeat(db, tagUid, meta) ==
  IF tagUid \in DOMAIN db /\ Spread(db[tagUid], meta) = db[tagUid]
    THEN [k \in (DOMAIN db) \ {tagUid} |-> db[k]]
    ELSE [k \in (DOMAIN db) \cup {tagUid} |->
            IF k = tagUid
              THEN Spread(IF tagUid \in DOMAIN db THEN db[tagUid] ELSE EmptyMeta, meta)
              ELSE db[k]]

\* a put that writes back a table holding its own record only
MergeMeta_OnlyThis(db, tagUid, meta) ==
  [k \in {tagUid} |->
     Spread(IF tagUid \in DOMAIN db THEN db[tagUid] ELSE EmptyMeta, meta)]

\* db[tagUid] = { ...db[tagUid], ...meta } on the table just read
MergeMeta(db, tagUid, meta) ==
  [k \in (DOMAIN db) \cup {tagUid} |->
     IF k = tagUid
       THEN Spread(IF tagUid \in DOMAIN db THEN db[tagUid] ELSE EmptyMeta, meta)
       ELSE db[k]]

\* saveUploadMeta: read, merge, write the whole table back; a write that
\* fails is swallowed (try { writeFileSync } catch {}) and leaves the file as
\* it is
saveUploadMeta(file, tagUid, meta) ==
  IF file.writable
    THEN [file EXCEPT !.valid = TRUE,
                      !.db = MergeMeta(loadUploadsDb(file), tagUid, meta)]
    ELSE file

\* getUploadMeta: db[tagUid] || null
HasMeta(file, tagUid) == tagUid \in DOMAIN loadUploadsDb(file)
getUploadMeta(file, tagUid) == loadUploadsDb(file)[tagUid]

\* meta.reference: null until the payload call has returned, undefined when
\* the record has no such field
RefIn(file, tagUid) ==
  IF ~HasMeta(file, tagUid) THEN "norecord"
  ELSE IF "reference" \in DOMAIN getUploadMeta(file, tagUid)
    THEN getUploadMeta(file, tagUid).reference
    ELSE "undefined"

\* a record left by an earlier directory upload
OldMeta ==
  [name |-> "old/", date |-> "earlier", batchId |-> "batch0",
   reference |-> "ref0", isDirectory |-> TRUE, fileCount |-> 1,
   files |-> {<<"a.txt", 6>>}, indexDocument |-> Null]

\* ------------------------------------------------------ Archive Packager

\* collectDirectoryFiles: (path, size) of every regular file
collectDirectoryFiles(tree) == { <<p, SizeOf(p)>> : p \in tree }

RECURSIVE SumSizes(_)
SumSizes(files) ==
  IF files = {} THEN 0
  ELSE LET f == CHOOSE x \in files : TRUE
       IN f[2] + SumSizes(files \ {f})

\* getDirectoryStats
getDirectoryStats(tree) ==
  LET files == collectDirectoryFiles(tree)
  IN [files |-> files, totalSize |-> SumSizes(files),
      fileCount |-> Cardinality(files)]

\* an entry point test that looks at the root of the tree only
hasIndexHtml_RootOnly(files) == \E f \in files : f[1] = "index.html"

\* f.path === 'index.html' || f.path.endsWith('/index.html')
IsIndexPath(p) == p = "index.html" \/ p = "sub/index.html"
hasIndexHtml(files) == \E f \in files : IsIndexPath(f[1])

\* ------------------------------------------------------ Progress display

Statuses ==
  { st \in [split : 0..MaxSplit, seen : 0..MaxSplit,
            sent : 0..MaxSplit, synced : 0..MaxSplit] :
      st.seen <= st.split /\ st.sent <= st.split /\ st.synced <= st.split }

Max3(a, b, c) ==
  IF a >= b /\ a >= c THEN a ELSE IF b >= c THEN b ELSE c

\* Math.round / toFixed(0) of a non-negative quotient n / d
RoundDiv(n, d) == (2 * n + d) \div (2 * d)

\* a phase selection that looks at seen before sent
Reconcile_SeenFirst(tag, size) ==
  LET progress == Max3(tag.seen, tag.sent, tag.synced)
      percent == RoundDiv(100 * progress, tag.split)
      transferred == RoundDiv(progress * size, tag.split)
  IN IF tag.synced >= tag.split
       THEN [phase |-> "Synced", percent |-> 100, bytes |-> size]
     ELSE IF tag.seen > 0
       THEN [phase |-> "Uploading", percent |-> percent, bytes |-> transferred]
     ELSE IF tag.sent > 0
       THEN [phase |-> "Syncing", percent |-> percent, bytes |-> transferred]
     ELSE [phase |-> "Processing", percent |-> ProcessingPercent, bytes |-> 0]

\* a synced test that also wants every chunk seen
Reconcile_SyncedNeedsSeen(tag, size) ==
  LET progress == Max3(tag.seen, tag.sent, tag.synced)
      percent == RoundDiv(100 * progress, tag.split)
      transferred == RoundDiv(progress * size, tag.split)
  IN IF tag.synced >= tag.split /\ tag.seen >= tag.split
       THEN [phase |-> "Synced", percent |-> 100, bytes |-> size]
     ELSE IF tag.sent > 0
       THEN [phase |-> "Syncing", percent |-> percent, bytes |-> transferred]
     ELSE IF tag.seen > 0
       THEN [phase |-> "Uploading", percent |-> percent, bytes |-> transferred]
     ELSE [phase |-> "Processing", percent |-> ProcessingPercent, bytes |-> 0]

\* the body of the interval callback for a reply with split > 0:
\* what it passes to updateProgress
Reconcile(tag, size) ==
  LET progress == Max3(tag.seen, tag.sent, tag.synced)
      percent == RoundDiv(100 * progress, tag.split)
      transferred == RoundDiv(progress * size, tag.split)
  IN IF tag.synced >= tag.split
       THEN [phase |-> "Synced", percent |-> 100, bytes |-> size]
     ELSE IF tag.sent > 0
       THEN [phase |-> "Syncing", percent |-> percent, bytes |-> transferred]
     ELSE IF tag.seen > 0
       THEN [phase |-> "Uploading", percent |-> percent, bytes |-> transferred]
     ELSE [phase |-> "Processing", percent |-> ProcessingPercent, bytes |-> 0]

InitialDisplay == [phase |-> "Initializing", percent |-> 0, bytes |-> 0]

\* ------------------------------------------------------ Upload Session

Replies ==
  {[ok |-> FALSE, tag |-> [split |-> 0, seen |-> 0, sent |-> 0, synced |-> 0]]}
    \cup [ok : {TRUE}, tag : Statuses]

NoHeaders == [batch |-> "", tag |-> NoTag, collection |-> FALSE, index |-> Null]

\* the locals of one upload function before it is called, with the history
\* of what the session did (calls .. overlapped) kept beside them;
\* overlapped: its reference was stored between the two puts of another session;
\* putFailed: a writeFileSync of one of its puts failed;
\* pc "upload" is the spec's Transferring, "syncSleep" and "syncPoll" its Syncing
IdleSession ==
  [kind |-> "none", pc |-> "idle", outcome |-> "none",
   tagUid |-> NoTag, progressInterval |-> FALSE, backgrounded |-> FALSE,
   dialog |-> "none", tarPath |-> FALSE, tarOnDisk |-> FALSE,
   size |-> 0, fileCount |-> 0, i |-> 0, syncComplete |-> FALSE,
   polls |-> 0, display |-> InitialDisplay, headers |-> NoHeaders,
   calls |-> {}, puts |-> 0, created |-> "none", payload |-> "none",
   syncPolls |-> 0, syncSeen |-> FALSE, pollOk |-> FALSE,
   initMeta |-> EmptyMeta, shown |-> {}, detachedAt |-> "none",
   afterDetach |-> {}, overlapped |-> FALSE, putFailed |-> FALSE]

\* showMessage, as seen from the session x that calls it: the message is
\* remembered, and also as feedback given after the detach when x is detached
showMessage(x, kind) ==
  [x EXCEPT !.shown = @ \cup {kind},
            !.afterDetach = IF x.backgrounded THEN @ \cup {kind} ELSE @]

\* updateProgress = (phase, percent, transferred) => { if (backgrounded) return; ... }
Render(x, d) ==
  [x EXCEPT !.display = d,
            !.afterDetach = IF x.backgrounded THEN @ \cup {"progress"} ELSE @]

updateProgress_NoGuard(x, d) == Render(x, d)

updateProgress(x, d) == IF x.backgrounded THEN x ELSE Render(x, d)

\* cleanupTar = () => { if (tarPath && fs.existsSync(tarPath)) unlink }
cleanupTar(x) ==
  IF x.tarPath /\ x.tarOnDisk THEN [x EXCEPT !.tarOnDisk = FALSE] ELSE x

\* clearInterval(progressInterval)
clearProgressInterval(x) == [x EXCEPT !.progressInterval = FALSE]

\* closeProgress (uploadDirectory's also calls cleanupTar)
closeProgress(x) ==
  LET y == clearProgressInterval(x)
      z == IF x.kind = "dir" THEN cleanupTar(y) ELSE y
  IN IF z.backgrounded THEN z ELSE [z EXCEPT !.dialog = "closed"]

\* moveToBackground: the detach handler
moveToBackground(x) ==
  [x EXCEPT !.backgrounded = TRUE, !.dialog = "detached",
            !.shown = @ \cup {"background"}, !.detachedAt = x.pc]

\* the function returns
Return(x, outcome) == [x EXCEPT !.pc = "done", !.outcome = outcome]

\* catch (err) { ... } of uploadFile and uploadDirectory
CatchError(x) ==
  IF x.backgrounded
    THEN LET y == clearProgressInterval(x)
             z == IF x.kind = "dir" THEN cleanupTar(y) ELSE y
         IN Return(showMessage(z, "failed"), "Failed")
    ELSE Return(showMessage(closeProgress(x), "failed"), "Failed")

\* an initial record that leaves the reference out
InitialMeta_NoReference(x, batch, files) ==
  IF x.kind = "file"
    THEN [name |-> "file", date |-> "now", batchId |-> batch]
    ELSE [name |-> "dir/", date |-> "now", batchId |-> batch,
          isDirectory |-> TRUE, fileCount |-> x.fileCount, files |-> files,
          indexDocument |-> IF hasIndexHtml(files) THEN "index.html" ELSE Null]

\* the record saved right after the tag is created
InitialMeta(x, batch, files) ==
  IF x.kind = "file"
    THEN [name |-> "file", date |-> "now", batchId |-> batch, reference |-> Null]
    ELSE [name |-> "dir/", date |-> "now", batchId |-> batch, reference |-> Null,
          isDirectory |-> TRUE, fileCount |-> x.fileCount, files |-> files,
          indexDocument |-> IF hasIndexHtml(files) THEN "index.html" ELSE Null]

\* headers that carry the batch id of the configuration read at startup
UploadHeaders_StartupBatch(x, batch, uid, files) ==
  [batch |-> "batch1", tag |-> uid, collection |-> (x.kind = "dir"),
   index |-> IF x.kind = "dir" /\ hasIndexHtml(files) THEN "index.html" ELSE Null]

\* the headers of POST /bzz
UploadHeaders(x, batch, uid, files) ==
  [batch |-> batch, tag |-> uid, collection |-> (x.kind = "dir"),
   index |-> IF x.kind = "dir" /\ hasIndexHtml(files) THEN "index.html" ELSE Null]

\* a loop bound that is off by one
SyncContinues_OffByOne(x) ==
  x.i <= SyncLimit /\ ~x.syncComplete /\ ~x.backgrounded

\* i < 240 && !syncComplete && !backgrounded
SyncContinues(x) == x.i < SyncLimit /\ ~x.syncComplete /\ ~x.backgrounded

\* a synced test that forgets that split = 0 means "not chunked yet"
IsSynced_NoSplitCheck(tag) == tag.synced >= tag.split

\* tag.synced >= tag.split && tag.split > 0
IsSynced(tag) == tag.synced >= tag.split /\ tag.split > 0

\* a sync wait that runs out of polls treated as an error
AfterSync_TimeoutFails(x) ==
  IF x.backgrounded
    THEN Return(clearProgressInterval(x), "Detached")
    ELSE IF x.syncComplete
      THEN Return(showMessage(closeProgress(x), "synced"), "Completed")
      ELSE CatchError(x)

\* a return after a detach in the sync wait that leaves the interval running
AfterSync_KeepsInterval(x) ==
  IF x.backgrounded
    THEN Return(x, "Detached")
    ELSE Return(showMessage(closeProgress(x),
                            IF x.syncComplete THEN "synced" ELSE "uploaded"),
                "Completed")

\* the statements after the sync loop
AfterSync(x) ==
  IF x.backgrounded
    THEN Return(clearProgressInterval(x), "Detached")
    ELSE Return(showMessage(closeProgress(x),
                            IF x.syncComplete THEN "synced" ELSE "uploaded"),
                "Completed")

FooterOf(s, x) ==
  IF x.shown = sess[s].shown THEN footer
  ELSE [sid |-> s, kinds |-> x.shown \ sess[s].shown]

\* a detached flag kept in one variable of the module instead of a local of
\* each invocation
Step_SharedFlag(s, x) ==
  /\ sess' = [o \in SessionIds |->
                IF o = s THEN x
                ELSE [sess[o] EXCEPT !.backgrounded = @ \/ x.backgrounded]]
  /\ footer' = FooterOf(s, x)

\* one step of session s ends with its locals equal to x
Step(s, x) ==
  /\ sess' = [sess EXCEPT ![s] = x]
  /\ footer' = FooterOf(s, x)

\* uploadFile without the batch id check
uploadFile_NoCheck(s) ==
  Step(s, [sess[s] EXCEPT !.kind = "file", !.size = FileSize,
                          !.dialog = "open", !.pc = "createTag",
                          !.calls = @ \cup {"create"},
                          !.created = "pending"])

\* uploadFile(filePath), from its call to the await of createTag()
uploadFile(s) ==
  LET x == sess[s]
  IN IF batchId = ""
       THEN Step(s, Return(showMessage([x EXCEPT !.kind = "file"], "nobatch"),
                           "Rejected"))
       ELSE Step(s, [x EXCEPT !.kind = "file", !.size = FileSize,
                              !.dialog = "open", !.pc = "createTag",
                              !.calls = @ \cup {"create"},
                              !.created = "pending"])

\* createTarArchive(dirPath): tar either writes the archive, or fails having
\* written nothing (left = FALSE) or a partial file (left = TRUE); the path
\* reaches tarPath only when it succeeds
createTarArchive(x, ok, left) ==
  IF ok THEN [x EXCEPT !.tarPath = TRUE, !.tarOnDisk = TRUE]
  ELSE [x EXCEPT !.tarOnDisk = left]

\* an uploadDirectory that asks for the tag before it packs
uploadDirectory_TagFirst(s, tree, ok, left) ==
  LET x == sess[s]
      stats == getDirectoryStats(tree)
      y == [x EXCEPT !.kind = "dir", !.size = stats.totalSize,
                     !.fileCount = stats.fileCount, !.dialog = "open",
                     !.calls = @ \cup {"create"}]
  IN IF batchId = ""
       THEN Step(s, Return(showMessage([x EXCEPT !.kind = "dir"], "nobatch"),
                           "Rejected"))
     ELSE IF ~ok
       THEN Step(s, CatchError(createTarArchive(y, FALSE, left)))
     ELSE Step(s, [createTarArchive(y, TRUE, TRUE) EXCEPT
                     !.pc = "createTag", !.created = "pending"])

\* uploadDirectory(dirPath), from its call to the await of createTag();
\* tree is what dirPath holds when it is called
uploadDirectory(s, tree, ok, left) ==
  LET x == sess[s]
      stats == getDirectoryStats(tree)
      y == [x EXCEPT !.kind = "dir", !.size = stats.totalSize,
                     !.fileCount = stats.fileCount, !.dialog = "open"]
  IN IF batchId = ""
       THEN Step(s, Return(showMessage([x EXCEPT !.kind = "dir"], "nobatch"),
                           "Rejected"))
     ELSE IF ~ok
       THEN Step(s, CatchError(createTarArchive(y, FALSE, left)))
     ELSE Step(s, [createTarArchive(y, TRUE, TRUE) EXCEPT
                     !.pc = "createTag", !.calls = @ \cup {"create"},
                     !.created = "pending"])

\* the user confirms the upload of the selected file
StartFile(s) ==
  /\ s \in sessions
  /\ sess[s].pc = "idle"
  /\ uploadFile(s)
  /\ UNCHANGED <<batchId, uploadsFile, dirFiles, nextUid, sessions, listing>>

\* screen.key(['f5']) on a directory entry, which holds tree: a directory
\* without regular files is refused with a message, any other is offered in
\* the confirmation dialog
F5Directory(s) ==
  /\ s \in sessions
  /\ sess[s].pc = "idle"
  /\ \E tree \in DirTrees :
       /\ dirFiles' = [dirFiles EXCEPT ![s] = tree]
       /\ IF getDirectoryStats(tree).fileCount = 0
            THEN Step(s, Return(showMessage(sess[s], "empty"), "Refused"))
            ELSE Step(s, [sess[s] EXCEPT !.pc = "confirm"])
  /\ UNCHANGED <<batchId, uploadsFile, nextUid, sessions, listing>>

\* the user confirms the upload of the selected directory: uploadDirectory
\* runs on what the directory holds now
StartDir(s) ==
  /\ s \in sessions
  /\ sess[s].pc = "confirm"
  /\ \E ok \in BOOLEAN, left \in BOOLEAN :
       /\ (ok => left)
       /\ uploadDirectory(s, dirFiles[s], ok, left)
  /\ UNCHANGED <<batchId, uploadsFile, dirFiles, nextUid, sessions, listing>>

\* escape, b or the button while the progress dialog has the focus
MoveToBackground(s) ==
  /\ sess[s].dialog = "open"
  /\ Step(s, moveToBackground(sess[s]))
  /\ UNCHANGED <<batchId, uploadsFile, dirFiles, nextUid, sessions, listing>>

\* tagUid = await createTag() settles; on success the code runs on to the
\* await of the payload request
CreateTagOk(s) ==
  LET x == sess[s]
      uid == nextUid
      files == IF x.kind = "dir" THEN collectDirectoryFiles(dirFiles[s]) ELSE {}
  IN /\ uploadsFile' = saveUploadMeta(uploadsFile, uid, InitialMeta(x, batchId, files))
     /\ nextUid' = nextUid + 1
     /\ Step(s, [x EXCEPT !.tagUid = uid, !.created = "ok",
                          !.puts = @ + 1,
                          !.putFailed = @ \/ ~uploadsFile.writable,
                          !.initMeta = InitialMeta(x, batchId, files),
                          !.progressInterval = TRUE,
                          !.headers = UploadHeaders(x, batchId, uid, files),
                          !.calls = @ \cup {"payload"},
                          !.payload = "pending",
                          !.pc = "upload"])

\* a failed createTag that still saves the initial record (under no uid)
CreateTagFail_SavesRecord(s) ==
  /\ Step(s, CatchError([sess[s] EXCEPT !.created = "failed"]))
  /\ uploadsFile' = saveUploadMeta(uploadsFile, NoTag,
                                   InitialMeta(sess[s], batchId, {}))
  /\ UNCHANGED nextUid

\* createTag() rejected: the catch block
CreateTagFail(s) ==
  /\ Step(s, CatchError([sess[s] EXCEPT !.created = "failed"]))
  /\ UNCHANGED <<uploadsFile, nextUid>>

CreateTagReply(s) ==
  /\ sess[s].pc = "createTag"
  /\ \E ok \in BOOLEAN : IF ok THEN CreateTagOk(s) ELSE CreateTagFail(s)
  /\ UNCHANGED <<batchId, dirFiles, sessions, listing>>

\* the callback of setInterval(..., 300) starts: getTagStatus is requested
TimerTick(s) ==
  /\ sess[s].progressInterval
  /\ sess[s].polls < MaxInFlight
  /\ Step(s, [sess[s] EXCEPT
                !.polls = @ + 1,
                !.calls = @ \cup {"status"},
                !.afterDetach = IF sess[s].backgrounded THEN @ \cup {"tick"} ELSE @])
  /\ UNCHANGED <<batchId, uploadsFile, dirFiles, nextUid, sessions, listing>>

\* an interval callback that stops the timer when its poll fails
IntervalCallback_StopsOnError(x, r) ==
  LET y == [x EXCEPT !.polls = @ - 1, !.pollOk = @ \/ r.ok]
  IN IF r.ok /\ r.tag.split > 0
       THEN updateProgress(y, Reconcile(r.tag, x.size))
     ELSE IF r.ok THEN y
     ELSE clearProgressInterval(y)

\* the rest of the interval callback, once its getTagStatus has settled
IntervalCallback(x, r) ==
  LET y == [x EXCEPT !.polls = @ - 1, !.pollOk = @ \/ r.ok]
  IN IF r.ok /\ r.tag.split > 0
       THEN updateProgress(y, Reconcile(r.tag, x.size))
       ELSE y

TimerReply(s) ==
  /\ sess[s].polls > 0
  /\ \E y \in { IntervalCallback(sess[s], r) : r \in Replies } : Step(s, y)
  /\ UNCHANGED <<batchId, uploadsFile, dirFiles, nextUid, sessions, listing>>

\* the loop header of the sync wait: sleep again, or leave the loop
SyncLoop(x) ==
  IF SyncContinues(x) THEN [x EXCEPT !.pc = "syncSleep"] ELSE AfterSync(x)

\* a payload reply that is dropped once the session is detached
PayloadOk_DroppedWhenDetached(s) ==
  LET x == sess[s]
      z == [x EXCEPT !.payload = "ok", !.puts = @ + 1]
  IN IF x.backgrounded
       THEN /\ UNCHANGED uploadsFile
            /\ Step(s, Return(clearProgressInterval(z), "Detached"))
       ELSE /\ uploadsFile' = saveUploadMeta(uploadsFile, x.tagUid, [reference |-> RefOf(s)])
            /\ Step(s, SyncLoop([z EXCEPT !.i = 0, !.syncComplete = FALSE]))

\* the payload request succeeded: the code runs on to the first sleep of the
\* sync wait, or returns when the session is detached
PayloadOk(s) ==
  LET x == sess[s]
      y == IF x.kind = "dir"
             THEN [cleanupTar(x) EXCEPT !.tarPath = FALSE]
             ELSE x
      z == [y EXCEPT !.payload = "ok", !.puts = @ + 1,
                     !.putFailed = @ \/ ~uploadsFile.writable,
                     !.overlapped = \E o \in SessionIds \ {s} :
                                      sess[o].payload = "pending"]
  IN /\ uploadsFile' = saveUploadMeta(uploadsFile, x.tagUid, [reference |-> RefOf(s)])
     /\ Step(s, IF z.backgrounded
                  THEN Return(clearProgressInterval(z), "Detached")
                  ELSE SyncLoop([z EXCEPT !.i = 0, !.syncComplete = FALSE]))

\* a catch block that rolls the record back
PayloadFail_Rollback(s) ==
  /\ Step(s, CatchError([sess[s] EXCEPT !.payload = "failed"]))
  /\ uploadsFile' =
       [uploadsFile EXCEPT
          !.valid = TRUE,
          !.db = [k \in DOMAIN loadUploadsDb(uploadsFile) \ {sess[s].tagUid} |->
                    loadUploadsDb(uploadsFile)[k]]]

\* a catch block that records the failure in the reference field
PayloadFail_MarksRecord(s) ==
  /\ Step(s, CatchError([sess[s] EXCEPT !.payload = "failed"]))
  /\ uploadsFile' = saveUploadMeta(uploadsFile, sess[s].tagUid,
                                   [reference |-> "failed"])

\* the payload request failed: the catch block
PayloadFail(s) ==
  /\ Step(s, CatchError([sess[s] EXCEPT !.payload = "failed"]))
  /\ UNCHANGED uploadsFile

PayloadReply(s) ==
  /\ sess[s].pc = "upload"
  /\ \E ok \in BOOLEAN : IF ok THEN PayloadOk(s) ELSE PayloadFail(s)
  /\ UNCHANGED <<batchId, dirFiles, nextUid, sessions, listing>>

\* await new Promise(r => setTimeout(r, 500)) is over: getTagStatus is requested
SyncTimeout(s) ==
  /\ sess[s].pc = "syncSleep"
  /\ Step(s, [sess[s] EXCEPT
                !.pc = "syncPoll",
                !.calls = @ \cup {"status"},
                !.syncPolls = @ + 1,
                !.afterDetach = IF sess[s].backgrounded THEN @ \cup {"poll"} ELSE @])
  /\ UNCHANGED <<batchId, uploadsFile, dirFiles, nextUid, sessions, listing>>

\* a sync wait whose getTagStatus is not wrapped in try/catch
SyncIteration_NoTry(x, r) ==
  IF r.ok
    THEN SyncLoop([x EXCEPT !.syncComplete = @ \/ IsSynced(r.tag),
                            !.syncSeen = @ \/ (r.tag.split > 0
                                               /\ r.tag.synced >= r.tag.split),
                            !.pollOk = TRUE,
                            !.i = @ + 1])
    ELSE CatchError(x)

\* the rest of one iteration of the sync wait, i++ and the loop header
SyncIteration(x, r) ==
  SyncLoop([x EXCEPT !.syncComplete = @ \/ (r.ok /\ IsSynced(r.tag)),
                     !.syncSeen = @ \/ (r.ok /\ r.tag.split > 0
                                             /\ r.tag.synced >= r.tag.split),
                     !.pollOk = @ \/ r.ok,
                     !.i = @ + 1])

SyncPollReply(s) ==
  /\ sess[s].pc = "syncPoll"
  /\ \E y \in { SyncIteration(sess[s], r) : r \in Replies } : Step(s, y)
  /\ UNCHANGED <<batchId, uploadsFile, dirFiles, nextUid, sessions, listing>>

\* ------------------------------------------------------ Transfer listing

\* the entries of one page: the node numbers its tags from the offset on
PageOf(offset, n) == [i \in 1..n |-> offset + i]

\* a 2xx reply without a tags field: a body that is not JSON resolves so
NoTags == [raw |-> ""]

\* the 2xx replies to the request of the page at offset
PageResults(offset) ==
  {[tags |-> PageOf(offset, n)] : n \in PageLengths} \cup {NoTags}

\* const tags = result.tags || []
TagsOf(result) == IF "tags" \in DOMAIN result THEN result.tags ELSE <<>>

\* a loop that also stops on a page of exactly limit entries
IsLastPage_Inclusive(tags) == Len(tags) <= PageLimit

\* if (tags.length < limit) break
IsLastPage(tags) == Len(tags) < PageLimit

IdleListing ==
  [ pc       |-> "idle",   \* idle | fetch | returned | failed
    offset   |-> 0,        \* let offset
    allTags  |-> <<>>,     \* const allTags
    result   |-> {},       \* the array getAllTags returned, if it returned
    tags     |-> {},       \* tagList.tags: the uids the list shows
    errorBox |-> FALSE,    \* nodeErrorBox is shown
    offsets  |-> <<>>,     \* history: the offsets requested by this call
    pages    |-> <<>> ]    \* history: the pages received by this call

\* refreshTagList() calls getAllTags(): the request for the first page
RefreshStart ==
  /\ listing.pc \in {"idle", "returned", "failed"}
  /\ listing' = [listing EXCEPT !.pc = "fetch", !.offset = 0,
                                !.allTags = <<>>, !.result = {},
                                !.offsets = <<0>>, !.pages = <<>>]
  /\ UNCHANGED <<batchId, uploadsFile, dirFiles, nextUid, footer, sessions, sess>>

\* one turn of the loop of getAllTags after the page arrived; on the last
\* page refreshTagList goes on and fills the list
getAllTags(l, result) ==
  LET tags == TagsOf(result)
      all == l.allTags \o tags
  IN IF IsLastPage(tags)
       THEN [l EXCEPT !.pc = "returned", !.allTags = all, !.result = {all},
                      !.tags = {all[i] : i \in 1..Len(all)},
                      !.errorBox = FALSE,
                      !.pages = Append(@, tags)]
       ELSE [l EXCEPT !.allTags = all, !.offset = @ + PageLimit,
                      !.offsets = Append(@, l.offset + PageLimit),
                      !.pages = Append(@, tags)]

\* the node answers the page request with 2xx
PageReply ==
  /\ listing.pc = "fetch"
  /\ \E result \in PageResults(listing.offset) :
       /\ Len(TagsOf(result)) = PageLimit => Len(listing.pages) < MaxPages
       /\ listing' = getAllTags(listing, result)
  /\ UNCHANGED <<batchId, uploadsFile, dirFiles, nextUid, footer, sessions, sess>>

\* the page request is rejected: getAllTags throws, the catch block of
\* refreshTagList shows the error box and leaves the list alone
PageFail ==
  /\ listing.pc = "fetch"
  /\ listing' = [listing EXCEPT !.pc = "failed", !.errorBox = TRUE]
  /\ UNCHANGED <<batchId, uploadsFile, dirFiles, nextUid, footer, sessions, sess>>

\* ------------------------------------------------------ specification

\* uploads.json at start: empty, or holding the record of an earlier upload
\* under the uid the node is about to give out again
InitialTables == {EmptyDb, [k \in {1} |-> OldMeta]}

InitCommon ==
  /\ batchId \in BatchIds
  /\ uploadsFile \in [valid : {TRUE}, db : InitialTables, writable : {TRUE}]
  /\ dirFiles = [s \in SessionIds |-> {}]
  /\ nextUid = 1
  /\ footer = [sid |-> 0, kinds |-> {}]
  /\ sess = [s \in SessionIds |-> IdleSession]
  /\ listing = IdleListing

\* one upload in the run
Init == InitCommon /\ sessions = {1}

Next ==
  \E s \in SessionIds :
    \/ StartFile(s)
    \/ F5Directory(s)
    \/ StartDir(s)
    \/ MoveToBackground(s)
    \/ CreateTagReply(s)
    \/ TimerTick(s)
    \/ TimerReply(s)
    \/ PayloadReply(s)
    \/ SyncTimeout(s)
    \/ SyncPollReply(s)

Spec == Init /\ [][Next]_vars

\* The event loop runs every timer that is due and every request to the
\* node settles (with a reply or an error): the steps a session waits for
\* are eventually taken.
Fairness ==
  \A s \in SessionIds :
    /\ WF_vars(CreateTagReply(s))
    /\ WF_vars(PayloadReply(s))
    /\ WF_vars(SyncTimeout(s))
    /\ WF_vars(SyncPollReply(s))

LiveSpec == Init /\ [][Next]_vars /\ Fairness

\* ------------------------------------------- a directory that changes

\* another process adds or removes files under the directory of session s
\* while the confirmation dialog is open or createTag() is awaited
DirChange(s) ==
  /\ \/ sess[s].pc = "confirm"
     \/ sess[s].pc = "createTag" /\ sess[s].kind = "dir"
  /\ \E tree \in DirTrees \ {dirFiles[s]} :
       dirFiles' = [dirFiles EXCEPT ![s] = tree]
  /\ UNCHANGED <<batchId, uploadsFile, nextUid, footer, sessions, sess, listing>>

NextFs == Next \/ \E s \in SessionIds : DirChange(s)

SpecFs == Init /\ [][NextFs]_vars

\* ------------------------------------------- the Metadata Store on its own

\* the handles and partial records that saveUploadMeta is called with
StoreHandles == {1, 2}
StorePartials ==
  { [name |-> "file", reference |-> Null],
    [reference |-> "ref1"],
    [name |-> "dir/", isDirectory |-> TRUE],
    [files |-> {<<"index.html", 4>>}] }

\* saveUploadMeta(tagUid, meta)
StorePut ==
  /\ \E h \in StoreHandles, p \in StorePartials :
       uploadsFile' = saveUploadMeta(uploadsFile, h, p)
  /\ UNCHANGED <<batchId, dirFiles, nextUid, footer, sessions, sess, listing>>

\* uploads.json stops being readable (fs.readFileSync throws) or parsable
\* (JSON.parse throws); what it holds is not touched
StoreReadFails ==
  /\ uploadsFile.valid
  /\ uploadsFile' = [uploadsFile EXCEPT !.valid = FALSE]
  /\ UNCHANGED <<batchId, dirFiles, nextUid, footer, sessions, sess, listing>>

InitStore ==
  /\ batchId = "batch1"
  /\ uploadsFile \in [valid : {TRUE}, db : InitialTables, writable : {TRUE}]
  /\ dirFiles = [s \in SessionIds |-> {}]
  /\ nextUid = 1
  /\ footer = [sid |-> 0, kinds |-> {}]
  /\ sessions = {}
  /\ sess = [s \in SessionIds |-> IdleSession]
  /\ listing = IdleListing

NextStore == StorePut \/ StoreReadFails

SpecStore == InitStore /\ [][NextStore]_vars

\* ------------------------------------------- two sessions at once

\* a getTagStatus of the sync wait that reports the transfer synced
SyncPollSynced(s) ==
  /\ sess[s].pc = "syncPoll"
  /\ \E y \in { SyncIteration(sess[s], r) : r \in { q \in Replies : q.ok /\ IsSynced(q.tag) } } :
       Step(s, y)
  /\ UNCHANGED <<batchId, uploadsFile, dirFiles, nextUid, sessions, listing>>

\* two file uploads are started in the run, over a table that holds an
\* earlier record; the second may be confirmed while the first is still
\* running
Init2 ==
  /\ InitCommon
  /\ batchId = "batch1"
  /\ uploadsFile.db # EmptyDb
  /\ sessions = SessionIds

\* the node syncs at once, so that a sync wait ends with its first poll
Next2 ==
  \E s \in SessionIds :
    \/ StartFile(s)
    \/ MoveToBackground(s)
    \/ CreateTagReply(s)
    \/ TimerTick(s)
    \/ TimerReply(s)
    \/ PayloadReply(s)
    \/ SyncTimeout(s)
    \/ SyncPollSynced(s)

Spec2 == Init2 /\ [][Next2]_vars

\* ------------------------------------------- a transfer that is chunked on

\* status replies of a node that goes on splitting while it sends and syncs,
\* and those of a transfer of many chunks of which none, one or all have been
\* seen, sent or synced
WideStatuses ==
  { st \in [split : 0..MaxChunks, seen : 0..MaxChunks,
            sent : 0..MaxChunks, synced : 0..MaxChunks] :
      st.seen <= st.split /\ st.sent <= st.split /\ st.synced <= st.split }
  \cup [split : {ManyChunks}, seen : {0, 1, ManyChunks},
        sent : {0, 1, ManyChunks}, synced : {0, 1, ManyChunks}]

WideReplies ==
  {[ok |-> FALSE, tag |-> [split |-> 0, seen |-> 0, sent |-> 0, synced |-> 0]]}
    \cup [ok : {TRUE}, tag : WideStatuses]

\* the getTagStatus of the interval callback settles
TimerReplyWide(s) ==
  /\ sess[s].polls > 0
  /\ \E y \in { IntervalCallback(sess[s], r) : r \in WideReplies } : Step(s, y)
  /\ UNCHANGED <<batchId, uploadsFile, dirFiles, nextUid, sessions, listing>>

\* one file upload, over an empty table
InitPoll ==
  /\ InitCommon
  /\ batchId = "batch1"
  /\ uploadsFile.db = EmptyDb
  /\ sessions = {1}

NextPoll ==
  \E s \in SessionIds :
    \/ StartFile(s)
    \/ MoveToBackground(s)
    \/ CreateTagReply(s)
    \/ TimerTick(s)
    \/ TimerReplyWide(s)
    \/ PayloadReply(s)
    \/ SyncTimeout(s)
    \/ SyncPollSynced(s)

SpecPoll == InitPoll /\ [][NextPoll]_vars

\* ------------------------------------------- a table that cannot be written

\* fs.writeFileSync on uploads.json starts to fail (disk full, read-only
\* state directory)
WriteFails ==
  /\ uploadsFile.writable
  /\ uploadsFile' = [uploadsFile EXCEPT !.writable = FALSE]
  /\ UNCHANGED <<batchId, dirFiles, nextUid, footer, sessions, sess, listing>>

InitIO ==
  /\ InitCommon
  /\ batchId = "batch1"
  /\ uploadsFile.db = EmptyDb
  /\ sessions = {1}

NextIO == Next \/ WriteFails

SpecIO == InitIO /\ [][NextIO]_vars

\* ------------------------------------------- the list of known transfers

InitList ==
  /\ InitCommon
  /\ batchId = "batch1"
  /\ uploadsFile.db = EmptyDb
  /\ sessions = {}

NextList == RefreshStart \/ PageReply \/ PageFail

SpecList == InitList /\ [][NextList]_vars

\* ------------------------------------------- the batch id changed with F2

\* what the user types into the prompt: promptInput passes on only a
\* trimmed, non-empty value
PromptValues == {"batch1", "batch2"}

\* screen.key(['f2']): the callback of the prompt
F2 ==
  /\ \E value \in PromptValues : batchId' = value
  /\ footer' = [sid |-> 0, kinds |-> {"saved"}]
  /\ UNCHANGED <<uploadsFile, dirFiles, nextUid, sessions, sess, listing>>

InitF2 ==
  /\ InitCommon
  /\ batchId = "batch1"
  /\ uploadsFile.db = EmptyDb
  /\ sessions = {1}

NextF2 == Next \/ F2

SpecF2 == InitF2 /\ [][NextF2]_vars

\* ------------------------------------------------------ claims

C1_Started(s) == sess[s].kind = "file" /\ sess[s].outcome # "Rejected"

C1_Safe(s) ==
  C1_Started(s) =>
    /\ sess[s].created = "ok" =>
         sess[s].tagUid # NoTag /\ HasMeta(uploadsFile, sess[s].tagUid)
    /\ sess[s].payload = "pending" => RefIn(uploadsFile, sess[s].tagUid) = Null
    /\ sess[s].payload = "ok" =>
         /\ RefIn(uploadsFile, sess[s].tagUid) = RefOf(s)
         /\ RefOf(s) # Null
         /\ ~sess[s].backgrounded => sess[s].outcome \in {"none", "Completed"}

C1_Settled(s) ==
  \/ sess[s].outcome = "Completed"
  \/ sess[s].created = "failed"
  \/ sess[s].payload = "failed"
  \/ sess[s].backgrounded

\* C1: a file upload started with a non-empty batch id, whose createTag and
\* payload calls succeed and which the user does not detach, gets a tag; its
\* record holds a null reference while the payload call is pending and the
\* returned reference afterwards; and the session eventually ends Completed,
\* never Failed.
C1_FileUploadCompletes ==
  /\ [](\A s \in SessionIds : C1_Safe(s))
  /\ \A s \in SessionIds : C1_Started(s) ~> C1_Settled(s)

\* a file upload that ran through the whole sync wait without a synced reply
C1_Witness ==
  \E s \in SessionIds :
    /\ sess[s].kind = "file" /\ sess[s].outcome = "Completed"
    /\ ~sess[s].syncComplete
    /\ RefIn(uploadsFile, sess[s].tagUid) = RefOf(s)

\* the records of the table that this run wrote
Written == { h \in DOMAIN loadUploadsDb(uploadsFile) :
               getUploadMeta(uploadsFile, h) # OldMeta }

\* C2: a record written by a session exists only if its createTag call
\* succeeded; the initial record is written before the payload call is issued;
\* and the record's reference is non-null only if the session's payload call
\* has returned successfully.
C2_RecordFollowsCalls ==
  /\ \A h \in Written :
       \E s \in SessionIds : sess[s].created = "ok" /\ sess[s].tagUid = h
  /\ \A s \in SessionIds :
       /\ sess[s].puts > 0 => sess[s].created = "ok"
       /\ "payload" \in sess[s].calls =>
            sess[s].puts >= 1 /\ HasMeta(uploadsFile, sess[s].tagUid)
       /\ (sess[s].created = "ok" /\ RefIn(uploadsFile, sess[s].tagUid) # Null)
            => sess[s].payload = "ok"

\* the payload call is pending over a record with a null reference that
\* replaced an earlier record of the same uid
C2_Witness ==
  \E s \in SessionIds :
    /\ sess[s].payload = "pending"
    /\ sess[s].tagUid \in Written
    /\ RefIn(uploadsFile, sess[s].tagUid) = Null
    /\ "isDirectory" \in DOMAIN getUploadMeta(uploadsFile, sess[s].tagUid)
    /\ sess[s].kind = "file"

C3_Obtained(s) == sess[s].tagUid # NoTag

\* C3 as stated: every session that obtained a tag has, once it has returned,
\* written its record once and mutated it exactly once.
C3_MutatedExactlyOnce ==
  \A s \in SessionIds :
    (C3_Obtained(s) /\ sess[s].pc = "done") => sess[s].puts = 2

C3_State(s) ==
  C3_Obtained(s) =>
    /\ HasMeta(uploadsFile, sess[s].tagUid)
    /\ sess[s].puts \in {1, 2}
    /\ sess[s].puts = 2 <=> sess[s].payload = "ok"
    /\ sess[s].payload \in {"pending", "failed"} =>
         /\ RefIn(uploadsFile, sess[s].tagUid) = Null
         /\ \A f \in DOMAIN sess[s].initMeta :
              getUploadMeta(uploadsFile, sess[s].tagUid)[f] = sess[s].initMeta[f]

C3_Step(s) ==
  LET h == sess[s].tagUid
  IN (C3_Obtained(s) /\ getUploadMeta(uploadsFile, h)' # getUploadMeta(uploadsFile, h))
       => /\ sess[s].payload = "pending" /\ sess'[s].payload = "ok"
          /\ getUploadMeta(uploadsFile, h)' =
               [getUploadMeta(uploadsFile, h) EXCEPT !.reference = RefOf(s)]

C3_NoDelete ==
  \A h \in DOMAIN loadUploadsDb(uploadsFile) : h \in DOMAIN loadUploadsDb(uploadsFile')

\* C3 (amended): for every session that obtains a tag the record is written
\* once with a null reference and is then mutated at most once: exactly once,
\* to attach the reference, when the payload call returns successfully, and
\* not at all when it fails; the engine never deletes a record.
C3_RecordLifecycle ==
  /\ [](\A s \in SessionIds : C3_State(s))
  /\ [][C3_NoDelete /\ \A s \in SessionIds : C3_Step(s)]_vars

\* a session that returned after a failed payload call: one write, no mutation
C3_Witness ==
  \E s \in SessionIds :
    /\ C3_Obtained(s) /\ sess[s].pc = "done" /\ sess[s].payload = "failed"
    /\ sess[s].puts = 1
    /\ RefIn(uploadsFile, sess[s].tagUid) = Null

\* C4: an upload started while the batch id is empty ends at once: no
\* request to the node (createTag, status, payload), no tag, no archive, no
\* record written, no dialog and no timer.
C4_EmptyBatchRejected ==
  /\ batchId = "" =>
       /\ Written = {}
       /\ \A s \in SessionIds :
            sess[s].kind # "none" => sess[s].outcome = "Rejected"
  /\ \A s \in SessionIds :
       sess[s].outcome = "Rejected" =>
         /\ batchId = ""
         /\ sess[s].pc = "done"
         /\ sess[s].calls = {} /\ sess[s].polls = 0
         /\ sess[s].tagUid = NoTag /\ sess[s].puts = 0
         /\ ~sess[s].tarPath /\ ~sess[s].tarOnDisk
         /\ ~sess[s].progressInterval /\ sess[s].dialog = "none"
         /\ sess[s].shown = {"nobatch"}

C4_Witness ==
  /\ \E s \in SessionIds : sess[s].kind = "file" /\ sess[s].outcome = "Rejected"
  /\ uploadsFile.db # EmptyDb

C5_Decided(s) ==
  /\ sess[s].outcome = "Failed" =>
       \/ sess[s].created = "failed"
       \/ sess[s].payload = "failed"
       \/ sess[s].created = "none" /\ sess[s].kind = "dir"
  /\ sess[s].payload = "failed" => sess[s].outcome = "Failed"
  /\ (sess[s].payload = "ok" /\ sess[s].pc = "done") =>
       sess[s].outcome = (IF sess[s].backgrounded THEN "Detached" ELSE "Completed")

\* a status reply of the interval changes neither where the session is nor
\* its timer
C5_IntervalReply(s) ==
  sess'[s].polls < sess[s].polls =>
    /\ sess'[s].pc = sess[s].pc
    /\ sess'[s].outcome = sess[s].outcome
    /\ sess'[s].progressInterval = sess[s].progressInterval

\* a reply of the sync wait never fails the session, and unless it reports
\* the transfer synced, it is the last allowed one or the session is
\* detached, the loop sleeps and polls again
C5_SyncReply(s) ==
  (sess[s].pc = "syncPoll" /\ sess'[s].pc # "syncPoll") =>
    /\ sess'[s].outcome # "Failed"
    /\ \/ sess'[s].pc = "syncSleep"
       \/ sess'[s].syncSeen
       \/ sess'[s].syncPolls = SyncLimit
       \/ sess'[s].backgrounded

\* C5: failed status polls never fail a session: the outcome is decided by
\* createTag and the payload call alone, a reply of the interval leaves the
\* timer running, and the sync wait polls again after a failed poll.
C5_PollFailuresSwallowed ==
  /\ [](\A s \in SessionIds : C5_Decided(s))
  /\ [][\A s \in SessionIds : C5_IntervalReply(s) /\ C5_SyncReply(s)]_vars

\* Completed although no status poll ever succeeded: all 240 polls of the
\* sync wait and at least one poll of the interval failed
C5_Witness ==
  \E s \in SessionIds :
    /\ sess[s].outcome = "Completed" /\ ~sess[s].pollOk
    /\ sess[s].syncPolls = SyncLimit
    /\ sess[s].polls = 0 /\ "status" \in sess[s].calls

C6_State(s) ==
  sess[s].payload = "failed" =>
    /\ sess[s].outcome = "Failed" /\ sess[s].pc = "done"
    /\ HasMeta(uploadsFile, sess[s].tagUid)
    /\ RefIn(uploadsFile, sess[s].tagUid) = Null
    /\ \A f \in DOMAIN sess[s].initMeta :
         getUploadMeta(uploadsFile, sess[s].tagUid)[f] = sess[s].initMeta[f]
    /\ {"name", "date", "batchId", "reference"} \subseteq DOMAIN sess[s].initMeta

C6_Step(s) ==
  (sess[s].payload = "pending" /\ sess'[s].payload = "failed") =>
    uploadsFile' = uploadsFile

\* C6: when the payload call fails, the session ends Failed and the record of
\* its tag is left exactly as it was: still there, with the fields of the
\* initial put and a null reference.
C6_FailureKeepsRecord ==
  /\ [](\A s \in SessionIds : C6_State(s))
  /\ [][\A s \in SessionIds : C6_Step(s)]_vars

\* a directory upload that failed in the payload call, detached or not
C6_Witness ==
  \E s \in SessionIds :
    /\ sess[s].kind = "dir" /\ sess[s].payload = "failed"
    /\ sess[s].outcome = "Failed"
    /\ getUploadMeta(uploadsFile, sess[s].tagUid).isDirectory

C7_Failed(s) ==
  sess[s].created = "failed" =>
    /\ sess[s].outcome = "Failed" /\ sess[s].pc = "done"
    /\ sess[s].tagUid = NoTag /\ sess[s].puts = 0
    /\ ~sess[s].progressInterval /\ sess[s].polls = 0
    /\ sess[s].calls = {"create"}
    /\ sess[s].payload = "none"

C7_Step(s) ==
  /\ (sess[s].created = "pending" /\ sess'[s].created = "failed")
       => uploadsFile' = uploadsFile
  /\ (sess[s].created = "pending" /\ sess'[s].created = "ok")
       => /\ sess'[s].pc = "upload"
          /\ sess'[s].payload = "pending"
          /\ sess'[s].progressInterval
          /\ HasMeta(uploadsFile', sess'[s].tagUid)

C8_Waiting(s) == sess[s].payload = "ok" /\ ~sess[s].backgrounded

C8_State(s) ==
  /\ sess[s].syncPolls <= SyncLimit
  /\ sess[s].payload = "ok" => sess[s].outcome # "Failed"
  /\ (C8_Waiting(s) /\ sess[s].pc = "syncSleep") =>
       ~sess[s].syncSeen /\ sess[s].syncPolls < SyncLimit
  /\ (C8_Waiting(s) /\ sess[s].pc = "done") =>
       /\ sess[s].outcome = "Completed"
       /\ "synced" \in sess[s].shown <=> sess[s].syncSeen
       /\ "uploaded" \in sess[s].shown <=> ~sess[s].syncSeen
       /\ sess[s].syncSeen => sess[s].syncPolls >= 1
       /\ ~sess[s].syncSeen => sess[s].syncPolls = SyncLimit

\* C8: after a successful payload call an undetached session polls the status
\* at most 240 times in its sync wait and then ends Completed, never Failed:
\* as synced if and only if one of those polls returned split > 0 and
\* synced >= split (it ends with that poll), and otherwise as not synced
\* after the 240th poll.
C8_SyncWaitBounded == \A s \in SessionIds : C8_State(s)

\* the 240th poll is the one that reports the transfer synced
C8_Witness ==
  \E s \in SessionIds :
    /\ sess[s].outcome = "Completed" /\ sess[s].syncSeen
    /\ sess[s].syncPolls = SyncLimit
    /\ "synced" \in sess[s].shown

\* C9 as stated: once a session is detached in Transferring or Syncing, its
\* interval never ticks again and it requests no further status.
C9_NoPollAfterDetach ==
  \A s \in SessionIds :
    sess[s].detachedAt \in {"upload", "syncSleep", "syncPoll"} =>
      sess[s].afterDetach \cap {"tick", "poll"} = {}

C11_State(s) ==
  (sess[s].backgrounded /\ sess[s].payload = "ok") =>
    /\ RefIn(uploadsFile, sess[s].tagUid) = RefOf(s)
    /\ sess[s].outcome \in {"none", "Detached"}

\* the detach itself writes nothing, and the reply of a payload call that
\* was detached while pending stores the reference in that same step
C11_Step(s) ==
  /\ (~sess[s].backgrounded /\ sess'[s].backgrounded) => uploadsFile' = uploadsFile
  /\ (sess[s].backgrounded /\ sess[s].payload = "pending" /\ sess'[s].payload = "ok")
       => RefIn(uploadsFile', sess[s].tagUid) = RefOf(s)

\* C11: detaching does not abort the upload: when the payload call of a
\* session detached while that call was pending succeeds, the record of its
\* tag holds the returned reference from then on; a session detached in its
\* sync wait keeps the reference already stored.
C11_DetachKeepsUpload ==
  /\ [](\A s \in SessionIds : C11_State(s))
  /\ [][\A s \in SessionIds : C11_Step(s)]_vars

\* detached while the payload call was pending, and the call then succeeded
C11_Witness ==
  \E s \in SessionIds :
    /\ sess[s].detachedAt = "upload" /\ sess[s].outcome = "Detached"
    /\ sess[s].payload = "ok"
    /\ RefIn(uploadsFile, sess[s].tagUid) = RefOf(s)

\* C12 as stated: once a directory upload has returned, on whatever path, no
\* archive that it created is left on disk.
C12_NoArchiveLeft ==
  \A s \in SessionIds :
    (sess[s].kind = "dir" /\ sess[s].pc = "done") => ~sess[s].tarOnDisk

\* C13 as stated: a directory upload that finds no regular file in its
\* directory when it starts issues no request to the node (createTag, status,
\* payload) and writes no record.
C13_EmptyDirRejected ==
  \A s \in SessionIds :
    (sess[s].kind = "dir" /\ sess[s].fileCount = 0) =>
      sess[s].calls = {} /\ sess[s].puts = 0

\* the paths of DirTrees whose file name is index.html
C14_NamedIndexHtml == {"index.html", "sub/index.html"}

C14_EntryPoint(s) ==
  IF dirFiles[s] \cap C14_NamedIndexHtml # {} THEN "index.html" ELSE Null

C14_Record(s) ==
  LET meta == getUploadMeta(uploadsFile, sess[s].tagUid)
  IN /\ HasMeta(uploadsFile, sess[s].tagUid)
     /\ meta.isDirectory = TRUE
     /\ meta.fileCount = Cardinality(dirFiles[s])
     /\ meta.files = { <<p, SizeOf(p)>> : p \in dirFiles[s] }
     /\ Cardinality(meta.files) = meta.fileCount
     /\ meta.indexDocument = C14_EntryPoint(s)

\* C14: a directory upload that has issued its payload call has a record with
\* isDirectory true, fileCount the number of regular files of the tree and
\* one (path, size) entry per file; the payload call carries the collection
\* marker; record and payload call name "index.html" as the entry point if
\* and only if a file named index.html is in the tree, and none otherwise.
C14_DirectoryRecord ==
  \A s \in SessionIds :
    (sess[s].kind = "dir" /\ "payload" \in sess[s].calls) =>
      /\ C14_Record(s)
      /\ sess[s].headers.collection
      /\ sess[s].headers.index = C14_EntryPoint(s)
      /\ sess[s].headers.tag = sess[s].tagUid

\* the upload of { index.html, a.txt } has returned with its reference stored
C14_Witness ==
  \E s \in SessionIds :
    /\ sess[s].kind = "dir" /\ sess[s].payload = "ok" /\ sess[s].pc = "done"
    /\ getUploadMeta(uploadsFile, sess[s].tagUid).fileCount = 2
    /\ getUploadMeta(uploadsFile, sess[s].tagUid).indexDocument = "index.html"
    /\ getUploadMeta(uploadsFile, sess[s].tagUid).reference = RefOf(s)
    /\ sess[s].headers.index = "index.html"

\* C15: put is idempotent: for every table, handle and partial record,
\* saveUploadMeta applied twice in a row leaves uploads.json as one
\* application leaves it.
C15_PutIdempotent ==
  \A h \in StoreHandles, p \in StorePartials :
    saveUploadMeta(saveUploadMeta(uploadsFile, h, p), h, p) =
      saveUploadMeta(uploadsFile, h, p)

\* a table made by puts, in which a record built from two partial records is
\* left as it is by putting the second one again
C15_Witness ==
  /\ uploadsFile.valid
  /\ HasMeta(uploadsFile, 2)
  /\ getUploadMeta(uploadsFile, 2) = [name |-> "file", reference |-> "ref1"]
  /\ saveUploadMeta(uploadsFile, 2, [reference |-> "ref1"]) = uploadsFile

\* the record that get returns, and "not found"
C16_Get(file, h) == IF HasMeta(file, h) THEN getUploadMeta(file, h) ELSE EmptyMeta

C16_Merged(file, h, p) ==
  LET before == C16_Get(file, h)
      after == C16_Get(saveUploadMeta(file, h, p), h)
  IN /\ HasMeta(saveUploadMeta(file, h, p), h)
     /\ DOMAIN after = (DOMAIN before) \cup (DOMAIN p)
     /\ \A f \in DOMAIN p : after[f] = p[f]
     /\ \A f \in (DOMAIN before) \ (DOMAIN p) : after[f] = before[f]

\* C16: put is a shallow field-overwrite merge: after saveUploadMeta(h, p),
\* getUploadMeta(h) has p's value in every field of p and the previous value
\* in every other field of the previous record; the record is created when
\* there was none and never replaced wholesale.
C16_ShallowMerge ==
  \A h \in StoreHandles, p \in StorePartials : C16_Merged(uploadsFile, h, p)

\* { reference } and { files } were put over the record of an earlier upload:
\* the reference and the whole file list are the new ones, the other fields
\* are kept
C16_Witness ==
  /\ HasMeta(uploadsFile, 1)
  /\ getUploadMeta(uploadsFile, 1) =
       [OldMeta EXCEPT !.reference = "ref1", !.files = {<<"index.html", 4>>}]

\* C18 as stated: whatever state uploads.json is in, readable or not, a put
\* for one handle leaves the record that the file holds for every other
\* handle in place and unchanged.
C18_PutKeepsOthers ==
  \A h \in StoreHandles, p \in StorePartials :
    \A k \in (DOMAIN uploadsFile.db) \ {h} :
      /\ k \in DOMAIN saveUploadMeta(uploadsFile, h, p).db
      /\ saveUploadMeta(uploadsFile, h, p).db[k] = uploadsFile.db[k]

\* the merge of the puts that session s has issued so far
C17_Expected(s) ==
  IF sess[s].payload = "ok"
    THEN Spread(sess[s].initMeta, [reference |-> RefOf(s)])
    ELSE sess[s].initMeta

C17_Holds(s) ==
  sess[s].created = "ok" =>
    /\ HasMeta(uploadsFile, sess[s].tagUid)
    /\ \A f \in DOMAIN C17_Expected(s) :
         getUploadMeta(uploadsFile, sess[s].tagUid)[f] = C17_Expected(s)[f]
    /\ \A o \in SessionIds \ {s} :
         sess[o].created = "ok" => sess[o].tagUid # sess[s].tagUid

\* C17: with two sessions live at once under distinct tags, no put is lost:
\* at every moment, and so once both have returned, the record of each tag
\* holds every field of its session's initial put and, when its payload call
\* succeeded, the returned reference.
C17_NoLostPut == \A s \in SessionIds : C17_Holds(s)

\* both sessions have returned with their references stored; session 2 got
\* its tag first, and session 1 stored its reference between the two puts of
\* session 2
C17_Witness ==
  /\ \A s \in SessionIds : sess[s].pc = "done" /\ sess[s].payload = "ok"
  /\ sess[1].overlapped
  /\ sess[1].tagUid = 2 /\ sess[2].tagUid = 1
  /\ RefIn(uploadsFile, 1) = RefOf(2) /\ RefIn(uploadsFile, 2) = RefOf(1)

\* C19 as stated: when the interval of a session whose dialog is open
\* receives a status with split = 0, the dialog then shows the placeholder
\* percent and the phase Processing.
C19_ZeroSplitPlaceholder ==
  \A s \in SessionIds :
    (sess[s].polls > 0 /\ sess[s].dialog = "open") =>
      \A r \in Replies :
        (r.ok /\ r.tag.split = 0) =>
          /\ IntervalCallback(sess[s], r).display.percent = ProcessingPercent
          /\ IntervalCallback(sess[s], r).display.phase = "Processing"

\* processing < uploading < syncing < synced with network
C20_Rank(phase) ==
  IF phase = "Synced" THEN 3
  ELSE IF phase = "Syncing" THEN 2
  ELSE IF phase = "Uploading" THEN 1
  ELSE 0

\* a session whose dialog shows the outcome of a reconciliation while the
\* next poll of its interval is awaited
C20_Polling(s) ==
  /\ sess[s].polls > 0 /\ sess[s].dialog = "open"
  /\ sess[s].display # InitialDisplay

\* the statuses that the reconciliation now shown can have been made from
C20_Shown(s) ==
  { t \in WideStatuses : t.split > 0 /\ Reconcile(t, sess[s].size) = sess[s].display }

\* the statuses whose reconciliation would come next
C20_Next == { t \in WideStatuses : t.split > 0 }

C20_After(s, t) == IntervalCallback(sess[s], [ok |-> TRUE, tag |-> t]).display

\* no counter of b is below that of a (so neither is the most advanced one)
C20_NoCounterDecreases(a, b) ==
  /\ b.seen >= a.seen /\ b.sent >= a.sent /\ b.synced >= a.synced
  /\ Max3(b.seen, b.sent, b.synced) >= Max3(a.seen, a.sent, a.synced)

\* the counter that selected the phase of a is not lower in b
C20_SelectingCounterHolds(a, b) ==
  IF a.synced >= a.split THEN b.synced >= a.synced
  ELSE IF a.sent > 0 THEN b.sent >= a.sent
  ELSE IF a.seen > 0 THEN b.seen >= a.seen
  ELSE TRUE

\* C20 as stated: of two successive reconciliations between which the more
\* advanced counter (indeed every counter) does not decrease, the second never
\* shows a less advanced phase than the first.
C20_PhaseNeverRegresses ==
  \A s \in SessionIds :
    C20_Polling(s) =>
      \A a \in C20_Shown(s), b \in C20_Next :
        C20_NoCounterDecreases(a, b) =>
          C20_Rank(C20_After(s, b).phase) >= C20_Rank(sess[s].display.phase)

\* C20 (amended): of two successive reconciliations of statuses with the same
\* split, between which the counter that selected the first phase (synced
\* when it had reached split, else sent when non-zero, else seen) does not
\* decrease, the second never shows a less advanced phase than the first.
C20_PhaseKeptAtSameSplit ==
  \A s \in SessionIds :
    C20_Polling(s) =>
      \A a \in C20_Shown(s), b \in C20_Next :
        (b.split = a.split /\ C20_SelectingCounterHolds(a, b)) =>
          C20_Rank(C20_After(s, b).phase) >= C20_Rank(sess[s].display.phase)

\* the dialog shows Syncing, and the next status has the same split and sent
\* but a stale lower seen: the phase stays Syncing
C20_Witness ==
  \E s \in SessionIds :
    /\ C20_Polling(s) /\ sess[s].display.phase = "Syncing"
    /\ \E a \in C20_Shown(s), b \in C20_Next :
         /\ b.split = a.split /\ b.sent = a.sent /\ b.seen < a.seen
         /\ C20_After(s, b).phase = "Syncing"

\* C21: a status with split > 0 and synced >= split received by the interval
\* of a session whose dialog is open is shown as Synced at exactly 100 % with
\* the full payload size, whatever its seen and sent.
C21_SyncedIsComplete ==
  \A s \in SessionIds :
    (sess[s].polls > 0 /\ sess[s].dialog = "open") =>
      \A t \in WideStatuses :
        (t.split > 0 /\ t.synced >= t.split) =>
          C20_After(s, t) =
            [phase |-> "Synced", percent |-> 100, bytes |-> sess[s].size]

\* the dialog shows Synced, 100 % and the full size, and the next poll is
\* awaited: a status of many chunks, all synced and none seen or sent, keeps
\* it there
C21_Witness ==
  \E s \in SessionIds :
    /\ sess[s].polls > 0 /\ sess[s].dialog = "open"
    /\ sess[s].display = [phase |-> "Synced", percent |-> 100, bytes |-> FileSize]
    /\ C20_After(s, [split |-> ManyChunks, seen |-> 0, sent |-> 0,
                     synced |-> ManyChunks]) = sess[s].display

\* C22 as stated: of two successive statuses of one transfer with the same
\* split and no counter decreased, the second is never shown with a lower
\* percent than the first.
C22_PercentMonotonic ==
  \A s \in SessionIds :
    C20_Polling(s) =>
      \A a \in C20_Shown(s), b \in C20_Next :
        (b.split = a.split /\ C20_NoCounterDecreases(a, b)) =>
          C20_After(s, b).percent >= sess[s].display.percent

\* C23 as stated: a session of which a put could not be written ends Failed
\* and is never reported Completed.
C23_PersistenceFailureFatal ==
  \A s \in SessionIds :
    sess[s].putFailed =>
      /\ sess[s].outcome # "Completed"
      /\ sess[s].pc = "done" => sess[s].outcome = "Failed"

\* the step was taken by session o, and s is the other one
C24_Untouched(s, o) ==
  (s # o /\ sess'[o] # sess[o]) =>
    /\ sess'[s].tagUid = sess[s].tagUid
    /\ sess'[s].backgrounded = sess[s].backgrounded
    /\ sess'[s].progressInterval = sess[s].progressInterval
    /\ sess'[s].i = sess[s].i
    /\ sess'[s].syncComplete = sess[s].syncComplete
    /\ sess[s].created = "ok" =>
         /\ HasMeta(uploadsFile', sess[s].tagUid)
         /\ getUploadMeta(uploadsFile', sess[s].tagUid) =
              getUploadMeta(uploadsFile, sess[s].tagUid)

\* C24: sessions are independent: a step of one session (start, tick, status
\* reply, detach, createTag or payload reply, failure, close) leaves the tag,
\* the detached flag, the interval, the sync-wait counter and the record of
\* the other session as they were.
C24_SessionsIndependent ==
  [][\A s \in SessionIds, o \in SessionIds : C24_Untouched(s, o)]_vars

\* session 2 was detached and has returned with its interval cleared, while
\* session 1, whose payload call returned first, is in its sync wait with
\* its dialog open and its interval running
C24_Witness ==
  /\ sess[2].outcome = "Detached" /\ sess[2].backgrounded
  /\ ~sess[2].progressInterval
  /\ sess[1].pc = "syncSleep" /\ sess[1].overlapped
  /\ sess[1].progressInterval /\ ~sess[1].backgrounded
  /\ sess[1].dialog = "open"
  /\ RefIn(uploadsFile, sess[1].tagUid) = RefOf(1)
  /\ RefIn(uploadsFile, sess[2].tagUid) = RefOf(2)

\* the directory upload of s ended in the catch block with tarPath never
\* assigned: createTarArchive threw
C25_PackingFailed(s) ==
  /\ sess[s].kind = "dir" /\ sess[s].outcome = "Failed"
  /\ ~sess[s].tarPath

C25_State(s) ==
  C25_PackingFailed(s) =>
    /\ sess[s].pc = "done"
    /\ sess[s].calls = {} /\ sess[s].created = "none"
    /\ sess[s].tagUid = NoTag
    /\ sess[s].puts = 0
    /\ ~sess[s].progressInterval /\ sess[s].polls = 0
    /\ "failed" \in sess[s].shown

\* the step in which the packing fails writes no record and uses up no uid
C25_Step(s) ==
  (sess[s].pc = "confirm" /\ sess'[s].outcome = "Failed") =>
    uploadsFile' = uploadsFile /\ nextUid' = nextUid

\* C25: when createTarArchive fails the directory upload ends Failed at once,
\* with its failure message: no createTag or other request is issued, no tag
\* exists, no record is written and no interval is started.
C25_PackingFailureIsLocal ==
  /\ [](\A s \in SessionIds : C25_State(s))
  /\ [][\A s \in SessionIds : C25_Step(s)]_vars

\* a directory upload failed in packing, over a table that nothing was
\* written to
C25_Witness ==
  \E s \in SessionIds :
    /\ C25_PackingFailed(s) /\ sess[s].dialog = "closed"
    /\ dirFiles[s] = {"index.html", "a.txt"}
    /\ Written = {}
    /\ nextUid = 1

\* the pages of a listing, one after the other
RECURSIVE C26_Concat(_)
C26_Concat(ps) ==
  IF ps = <<>> THEN <<>>
  ELSE C26_Concat(SubSeq(ps, 1, Len(ps) - 1)) \o ps[Len(ps)]

C26_State ==
  LET l == listing
      n == Len(l.pages)
  IN /\ \A i \in 1..Len(l.offsets) : l.offsets[i] = (i - 1) * PageLimit
     /\ \A i \in 1..n :
          Len(l.pages[i]) < PageLimit => i = n /\ l.pc = "returned"
     /\ l.pc = "fetch" => Len(l.offsets) = n + 1 /\ l.result = {}
     /\ l.pc = "returned" =>
          /\ n >= 1
          /\ Len(l.pages[n]) < PageLimit
          /\ Len(l.offsets) = n
          /\ l.result = {C26_Concat(l.pages)}
     /\ l.pc = "failed" => l.result = {}

C26_Step ==
  listing.pc = "fetch" /\ listing'.pc = "failed" =>
    /\ listing'.result = {}
    /\ listing'.tags = listing.tags

\* C26: getAllTags requests the pages at offsets 0, L, 2L, ... (L the page
\* limit), goes on while every page has L entries, returns right after the
\* first page with fewer than L entries, and returns the concatenation of the
\* pages it fetched; it returns only after a short page; when a page request
\* fails the listing has no result and the list on screen is left as it was.
C26_ListingIsPaged == []C26_State /\ [][C26_Step]_vars

\* a listing of two full pages and a short one has returned
C26_Witness ==
  /\ listing.pc = "returned"
  /\ Len(listing.pages) = 3
  /\ \E all \in listing.result : Len(all) > 2 * PageLimit

\* session s has sent its payload call
C27_Sent(s) == "payload" \in sess[s].calls

\* C27: once a session has sent its payload call, the batch id of the record
\* under its tag equals the batch id in the headers of that call, whenever F2
\* changes the global batch id.
C27_RecordBatchIsSentBatch ==
  \A s \in SessionIds :
    C27_Sent(s) =>
      /\ sess[s].initMeta.batchId = sess[s].headers.batch
      /\ HasMeta(uploadsFile, sess[s].tagUid)
      /\ getUploadMeta(uploadsFile, sess[s].tagUid).batchId = sess[s].headers.batch

\* the batch id was changed while createTag was awaited and again during the
\* upload: the call and the record carry the one in force in between
C27_Witness ==
  \E s \in SessionIds :
    /\ C27_Sent(s)
    /\ sess[s].outcome = "Completed"
    /\ sess[s].headers.batch = "batch2"
    /\ getUploadMeta(uploadsFile, sess[s].tagUid).batchId = "batch2"
    /\ batchId = "batch1"

\* C28: when an upload function has returned, on whichever path, its polling
\* interval either was never created or has been cleared.
C28_NoTimerLeak ==
  \A s \in SessionIds : sess[s].pc = "done" => ~sess[s].progressInterval

\* the function returned after a detach in the sync wait, its interval having
\* been created
C28_Witness ==
  \E s \in SessionIds :
    /\ sess[s].pc = "done"
    /\ sess[s].outcome = "Detached"
    /\ sess[s].detachedAt \in {"syncSleep", "syncPoll"}
    /\ sess[s].created = "ok"

\* session s ended in the foreground and closed its progress dialog
C29_Closed(s) ==
  /\ sess[s].pc = "done"
  /\ sess[s].outcome \in {"Completed", "Failed"}
  /\ ~sess[s].backgrounded
  /\ sess[s].dialog = "closed"

\* C29: once a session that was not detached has ended Completed or Failed
\* and closed its progress dialog, no step changes its progress display, even
\* the reply to a status poll issued before the end.
C29_NoProgressAfterClose ==
  [][\A s \in SessionIds : C29_Closed(s) => sess'[s].display = sess[s].display]_vars

\* the fields only a directory upload writes
C30_DirectoryFields == {"isDirectory", "fileCount", "files", "indexDocument"}

\* C30: after the initial put of a file upload the record under its handle
\* has a null reference and none of the fields of a directory upload, also
\* when the table already held a record under that handle.
C30_RecordDescribesLastUpload ==
  \A s \in SessionIds :
    sess[s].kind = "file" /\ sess[s].pc = "upload" =>
      LET meta == getUploadMeta(uploadsFile, sess[s].tagUid)
      IN /\ meta.reference = Null
         /\ DOMAIN meta \cap C30_DirectoryFields = {}

\* C31: every record of a directory upload has a fileCount equal to the
\* number of entries of its file list, also when files are added to or
\* removed from the directory while createTag is awaited.
C31_FileCountMatchesList ==
  LET db == loadUploadsDb(uploadsFile)
  IN \A uid \in DOMAIN db :
       "isDirectory" \in DOMAIN db[uid] =>
         db[uid].fileCount = Cardinality(db[uid].files)

====
